---- MODULE Spec2Model ----
(***************************************************************************)
(* Model of check-domain (src/index.js): one call of the exported function *)
(* check(options, endCallback).  The pipeline is                           *)
(*   getIp -> getPing -> getMajesticData -> getOtherMetrics                *)
(* composed with async.waterfall, and getOtherMetrics runs four tasks       *)
(* under async.parallel.  Every action of the model is one callback of an  *)
(* external collaborator (dns, ping, request, serp) together with all the  *)
(* code that runs synchronously from it.                                    *)
(*                                                                          *)
(* JavaScript values are tagged records [t |-> type, v |-> payload], so    *)
(* that the number 0, the string "0", false and undefined stay distinct    *)
(* and truthiness is computed as the language computes it.                  *)
(***************************************************************************)
EXTENDS Integers, Sequences, FiniteSets, TLC

VARIABLES options, pc, crashed, generalInfo, inflight, results, completed,
          issued, probed, failed, firstError, cbCount, cbError, cbData,
          cancelled

vars == <<options, pc, crashed, generalInfo, inflight, results, completed,
          issued, probed, failed, firstError, cbCount, cbError, cbData,
          cancelled>>

(***************************************************************************)
(* Bounds of the model.                                                     *)
(***************************************************************************)
\* largest TrustFlow the authority provider returns
MaxTrustFlow == 1
\* largest minTrustFlow threshold a request carries
MaxMinTrustFlow == 1
\* largest result count the index-counting service returns
MaxCount == 2

(***************************************************************************)
(* JavaScript values.                                                       *)
(***************************************************************************)
Undefined == [t |-> "undefined"]
Null == [t |-> "null"]
NaN == [t |-> "NaN"]
Num(n) == [t |-> "number", v |-> n]
Str(s) == [t |-> "string", v |-> s]
Bool(b) == [t |-> "boolean", v |-> b]
Obj(r) == [t |-> "object", v |-> r]
Err(name) == [t |-> "error", v |-> name]

\* ToBoolean: the value of x in `if (x)` and in `x && y`
Truthy(x) ==
  CASE x.t = "undefined" -> FALSE
    [] x.t = "null" -> FALSE
    [] x.t = "NaN" -> FALSE
    [] x.t = "boolean" -> x.v
    [] x.t = "number" -> x.v # 0
    [] x.t = "string" -> x.v # ""
    [] OTHER -> TRUE

\* o.name for an object o: undefined when the property is absent
Get(o, name) == IF name \in DOMAIN o.v THEN o.v[name] ELSE Undefined

\* o.name = x
Put(o, name, x) ==
  Obj([k \in DOMAIN o.v \cup {name} |-> IF k = name THEN x ELSE o.v[k]])

\* a < b on numbers; a comparison with undefined is false
Lt(a, b) == a.t = "number" /\ b.t = "number" /\ a.v < b.v

\* a - b: NaN as soon as one operand is undefined or NaN
Minus(a, b) ==
  IF a.t = "number" /\ b.t = "number" THEN Num(a.v - b.v) ELSE NaN

\* x is a value, not undefined
Defined(x) == x.t # "undefined"

\* reading a property of x raises a TypeError
Nullish(x) == x.t \in {"undefined", "null"}

(***************************************************************************)
(* Constants of src/index.js.                                               *)
(***************************************************************************)
REDEMPTION_PERIOD == "redemptionPeriod"
PENDING_DELETE == "pendingDelete"
INVALID_DOMAIN_MESSAGE == "Unable to retrieve whois record for"
MISSING_WHOIS_DATA_MESSAGE == "MISSING_WHOIS_DATA"

(***************************************************************************)
(* The requests: options of one check.                                      *)
(***************************************************************************)
Domains == {"example.com", "test.org"}

WhoisCredentials ==
  { Undefined,
    Obj([user |-> Str("u")]),
    Obj([user |-> Str("u"), password |-> Str("p")]) }

MinTrustFlows == {Undefined} \cup {Num(n) : n \in 0..MaxMinTrustFlow}

Options ==
  { Obj([domain |-> Str(d), majecticKey |-> mk, whois |-> w,
         semrushKey |-> sk, noCheckIfDNSResolve |-> nc, minTrustFlow |-> tf]) :
      d \in Domains, mk \in {Undefined, Str("MK")}, w \in WhoisCredentials,
      sk \in {Undefined, Str("SK")}, nc \in {Undefined, Bool(TRUE)},
      tf \in MinTrustFlows }

(***************************************************************************)
(* Pure functions of src/index.js.                                          *)
(***************************************************************************)
\* new URI("http://" + domain).tld(): the last label of the host name
getTld(domain) ==
  CASE domain = "example.com" -> Str("com")
    [] domain = "test.org" -> Str("org")

emptyWhoisData ==
  Obj([missingData |-> Str("true"),
       isValidDomain |-> Str("no-data"),
       isPendingDelete |-> Str("no-data"),
       isRedemptionPeriod |-> Str("no-data"),
       createdDate |-> Str("no-data"),
       expiresDate |-> Str("no-data"),
       expiredWaitingTime |-> Str("no-data"),
       estimatedDomainAge |-> Str("no-data")])

emptySemrush ==
  Obj([rank |-> Num(-1),
       oganicKeywords |-> Num(0),
       organicTraffic |-> Num(0),
       organicCost |-> Num(0),
       adwordsKeywords |-> Num(0),
       adwordsTraffic |-> Num(0),
       adwordsCost |-> Num(0)])

\* a[i] for the i-th element (from 0) of a JavaScript array of strings
At(a, i) == IF i + 1 \in DOMAIN a THEN Str(a[i + 1]) ELSE Undefined

\* convertSemrush testing the number of lines against 1 instead of 2: the
\* missing data row then reads as a row without fields
convertSemrush_OffByOne(semrushResponse) ==
  IF Len(semrushResponse) < 1
  THEN emptySemrush
  ELSE LET response == IF Len(semrushResponse) < 2 THEN <<>> ELSE semrushResponse[2]
       IN Obj([rank |-> At(response, 1),
               oganicKeywords |-> At(response, 2),
               organicTraffic |-> At(response, 3),
               organicCost |-> At(response, 4),
               adwordsKeywords |-> At(response, 5),
               adwordsTraffic |-> At(response, 6),
               adwordsCost |-> At(response, 7)])

\* The body is given already split: a sequence of CR-LF-delimited lines,
\* each one the sequence of its ";"-delimited fields.  split() never returns
\* an empty array: the empty body is the one line <<"">>.
convertSemrush(semrushResponse) ==
  IF Len(semrushResponse) < 2
  THEN emptySemrush
  ELSE LET response == semrushResponse[2]
       IN Obj([rank |-> At(response, 1),
               oganicKeywords |-> At(response, 2),
               organicTraffic |-> At(response, 3),
               organicCost |-> At(response, 4),
               adwordsKeywords |-> At(response, 5),
               adwordsTraffic |-> At(response, 6),
               adwordsCost |-> At(response, 7)])

(***************************************************************************)
(* Responses of the external collaborators.                                 *)
(***************************************************************************)
\* body of an HTTP response that JSON.parse rejects / accepts
Malformed == [t |-> "malformed"]
Json(x) == [t |-> "json", v |-> x]

\* arguments (error, response, body) of a callback of request()
TransportError(body) == [error |-> TRUE, statusCode |-> 0, body |-> body]
Http(code, body) == [error |-> FALSE, statusCode |-> code, body |-> body]

\* addresses dns.lookup answers with
Addresses == {"192.0.2.1", "192.0.2.2"}

\* Majestic: DataTables.Results.Data is a list of item records
MajesticItem(n) == Obj([ResultCode |-> Str("OK"), TrustFlow |-> Num(n)])

MajesticBodies ==
  {Malformed, Json(<<>>)} \cup {Json(<<MajesticItem(n)>>) : n \in 0..MaxTrustFlow}

MajesticResponses ==
  {TransportError(Malformed), Http(500, Malformed)}
    \cup {Http(200, b) : b \in MajesticBodies}

\* whoisxmlapi: registry status strings, dates and ages of the answers
Statuses == {"AVAILABLE", "REGISTERED", "clientHold pendingDelete", "redemptionPeriod"}

\* s.indexOf(sub) > -1 for the strings of the model
Contains(s, sub) ==
  \/ s = sub
  \/ <<s, sub>> \in {<<"clientHold pendingDelete", PENDING_DELETE>>}

\* moment(date, moment.ISO_8601).fromNow(), the clock being at 2026-01-01
fromNow(date) ==
  CASE date = "2030-01-01T00:00:00Z" -> "in 4 years"
    [] date = "2020-01-01T00:00:00Z" -> "6 years ago"

\* (days / 365).toFixed(2)
toFixed2(days) ==
  CASE days = 365 -> "1.00"
    [] days = 100 -> "0.27"

WhoisRecordFull(status) ==
  Obj([registryData |-> Obj([status |-> Str(status)]),
       createdDate |-> Str("2020-01-01T00:00:00Z"),
       expiresDate |-> Str("2030-01-01T00:00:00Z"),
       estimatedDomainAge |-> Num(365)])

WhoisBodies ==
  { Malformed,
    Json(Obj(<<>>)),
    Json(Obj([ErrorMessage |-> Obj([msg |-> Str(INVALID_DOMAIN_MESSAGE)])])),
    Json(Obj([ErrorMessage |-> Obj([msg |-> Str("Quota exceeded")])])),
    Json(Obj([WhoisRecord |-> Obj([dataError |-> Str(MISSING_WHOIS_DATA_MESSAGE)])])),
    Json(Obj([WhoisRecord |-> Obj([registryData |-> Obj([status |-> Str("")]),
                                   expiresDate |-> Str("2020-01-01T00:00:00Z"),
                                   estimatedDomainAge |-> Num(100)])])) }
  \cup {Json(Obj([WhoisRecord |-> WhoisRecordFull(s)])) : s \in Statuses}

WhoisResponses ==
  {TransportError(Malformed), Http(403, Malformed)}
    \cup {Http(200, b) : b \in WhoisBodies}

\* Semrush: the body as its lines, each line as its fields
SemrushHeader == <<"Domain", "Rank", "Organic Keywords", "Organic Traffic",
                   "Organic Cost", "Adwords Keywords", "Adwords Traffic",
                   "Adwords Cost">>

SemrushBodies ==
  { <<<<"">>>>,
    <<SemrushHeader>>,
    <<SemrushHeader, <<"">>>>,
    <<SemrushHeader, <<"example.com", "7", "10", "20", "30", "1", "2", "3">>>> }

SemrushResponses ==
  {TransportError(<<<<"">>>>), Http(403, <<<<"">>>>)}
    \cup {Http(200, b) : b \in SemrushBodies}

\* serp.search answers callback(error, numberOfResults)
Counts == 0..MaxCount

(***************************************************************************)
(* getWhoisData, lines 220-277: the normalisation of a 200 answer.          *)
(***************************************************************************)
normalizeWhois(info) ==
  LET ErrorMessage == Get(info, "ErrorMessage")
      WhoisRecord == Get(info, "WhoisRecord")
      hasRecord == Truthy(WhoisRecord)
      registryData == IF hasRecord THEN Get(WhoisRecord, "registryData") ELSE Undefined
      status == IF Truthy(registryData) THEN Get(registryData, "status") ELSE Undefined
      i1 == Put(info, "isValidDomain",
              IF Truthy(ErrorMessage)
                 /\ Contains(Get(ErrorMessage, "msg").v, INVALID_DOMAIN_MESSAGE)
              THEN Bool(FALSE) ELSE Bool(TRUE))
      i2 == Put(i1, "missingData",
              IF hasRecord /\ Truthy(Get(WhoisRecord, "dataError"))
                 /\ Get(WhoisRecord, "dataError") = Str(MISSING_WHOIS_DATA_MESSAGE)
              THEN Bool(TRUE) ELSE Bool(FALSE))
      i3 == IF Truthy(status)
            THEN Put(Put(Put(i2, "status", status),
                         "isPendingDelete", Bool(Contains(status.v, PENDING_DELETE))),
                     "isRedemptionPeriod", Bool(Contains(status.v, REDEMPTION_PERIOD)))
            ELSE Put(Put(i2, "isPendingDelete", Str("no-data")),
                     "isRedemptionPeriod", Str("no-data"))
      i4 == IF hasRecord /\ Truthy(Get(WhoisRecord, "createdDate"))
            THEN Put(i3, "createdDate", Get(WhoisRecord, "createdDate"))
            ELSE Put(i3, "createdDate", Str("no-data"))
      i5 == IF hasRecord /\ Truthy(Get(WhoisRecord, "expiresDate"))
            THEN Put(Put(i4, "expiresDate", Get(WhoisRecord, "expiresDate")),
                     "expiredWaitingTime",
                     Str(fromNow(Get(WhoisRecord, "expiresDate").v)))
            ELSE Put(Put(i4, "expiresDate", Str("no-data")),
                     "expiredWaitingTime", Str("no-data"))
  IN IF hasRecord /\ Truthy(Get(WhoisRecord, "estimatedDomainAge"))
     THEN Put(i5, "estimatedDomainAge",
              Str(toFixed2(Get(WhoisRecord, "estimatedDomainAge").v)))
     ELSE Put(i5, "estimatedDomainAge", Str("no-data"))

(***************************************************************************)
(* The state of one check.                                                  *)
(*   pc          state of the pipeline (the names of the state machine)     *)
(*   crashed     an exception left a callback uncaught: the process ended   *)
(*   generalInfo the data object threaded through the stages                *)
(*   inflight    external calls issued and not yet answered                 *)
(*   results     the four result slots of async.parallel                    *)
(*   completed   slots whose task called back without error                 *)
(*   issued      number of calls issued to each external collaborator       *)
(*   probed      the addresses ping.sys.probe was called with               *)
(*   failed      calls answered with a failure: an error of dns.lookup, a   *)
(*               probe without reply, a transport error, a status other     *)
(*               than 200, an error of serp.search                          *)
(*   firstError  the first error a fatal provider reported                  *)
(*   cbCount, cbError, cbData  invocations of the caller's callback and the  *)
(*               arguments of the last one                                  *)
(*   cancelled   the caller has triggered its deadline / cancellation       *)
(*               signal; the signal lives in the caller, no code of         *)
(*               src/index.js reads it                                      *)
(***************************************************************************)
Calls == {"dns", "dns.www", "ping", "majestic", "whois", "semrush",
          "serp.primary", "serp.google"}

Slots == 0..3

\* the external call whose answer fills a slot of the parallel group
SlotCall(slot) ==
  CASE slot = 0 -> "whois"
    [] slot = 1 -> "semrush"
    [] slot = 2 -> "serp.primary"
    [] slot = 3 -> "serp.google"

Issue(calls) == [c \in Calls |-> IF c \in calls THEN issued[c] + 1 ELSE issued[c]]

\* an exception nobody catches ends the process: no callback runs any more
Throw ==
  /\ crashed' = TRUE
  /\ inflight' = {}
  /\ UNCHANGED <<cancelled, probed, options, pc, generalInfo, results, completed, issued,
                 firstError, cbCount, cbError, cbData>>

\* lines 72-80: the final callback of the waterfall reports to the caller
endCallback(error, data) ==
  /\ pc' = IF Truthy(error) THEN "Failed" ELSE "Done"
  /\ cbCount' = cbCount + 1
  /\ cbError' = error
  /\ cbData' = data

\* merge with the availability read from the whois status alone
merge_IgnoreDNS(gi, res) ==
  LET d1 == IF Truthy(res[0]) THEN Put(gi, "whois", res[0]) ELSE gi
      d2 == IF Truthy(res[0])
            THEN IF Truthy(Get(d1, "whois")) /\ Truthy(Get(Get(d1, "whois"), "status"))
                 THEN Put(d1, "isAvailable",
                          Bool(Get(Get(d1, "whois"), "status") = Str("AVAILABLE")))
                 ELSE Put(d1, "isAvailable", Bool(FALSE))
            ELSE d1
      d3 == IF Truthy(res[1]) THEN Put(d2, "semrush", res[1]) ELSE d2
      d4 == IF Truthy(res[2]) THEN Put(d3, "primaryIndex", res[2]) ELSE d3
      d5 == IF Truthy(res[3])
            THEN Put(Put(d4, "googleIndex", res[3]),
                     "secondaryIndex", Minus(res[3], Get(d4, "primaryIndex")))
            ELSE d4
  IN Put(d5, "tld", getTld(Get(options, "domain").v))

\* lines 142-184: the final callback of async.parallel, without error
merge(gi, res) ==
  LET d1 == IF Truthy(res[0]) THEN Put(gi, "whois", res[0]) ELSE gi
      d2 == IF Truthy(res[0])
            THEN IF Truthy(Get(d1, "isDNSFound"))
                 THEN Put(d1, "isAvailable", Bool(FALSE))
                 ELSE IF Truthy(Get(d1, "whois")) /\ Truthy(Get(Get(d1, "whois"), "status"))
                      THEN Put(d1, "isAvailable",
                               Bool(Get(Get(d1, "whois"), "status") = Str("AVAILABLE")))
                      ELSE Put(d1, "isAvailable", Bool(FALSE))
            ELSE d1
      d3 == IF Truthy(res[1]) THEN Put(d2, "semrush", res[1]) ELSE d2
      d4 == IF Truthy(res[2]) THEN Put(d3, "primaryIndex", res[2]) ELSE d3
      d5 == IF Truthy(res[3])
            THEN Put(Put(d4, "googleIndex", res[3]),
                     "secondaryIndex", Minus(res[3], Get(d4, "primaryIndex")))
            ELSE d4
  IN Put(d5, "tld", getTld(Get(options, "domain").v))

\* getWhoisData without the test of the credentials
getWhoisData_NoCredentialCheck(gi) ==
  IF Truthy(Get(options, "noCheckIfDNSResolve")) /\ Truthy(Get(gi, "isDNSFound"))
  THEN [kind |-> "result", value |-> emptyWhoisData]
  ELSE IF Truthy(Get(options, "minTrustFlow")) /\ Nullish(Get(gi, "majestic"))
  THEN [kind |-> "throw", value |-> Undefined]
  ELSE IF Truthy(Get(options, "minTrustFlow"))
          /\ Lt(Get(Get(gi, "majestic"), "TrustFlow"), Get(options, "minTrustFlow"))
  THEN [kind |-> "result", value |-> emptyWhoisData]
  ELSE [kind |-> "request", value |-> Undefined]

\* getWhoisData with the threshold test the wrong way round
getWhoisData_ReversedThreshold(gi) ==
  IF Truthy(Get(options, "noCheckIfDNSResolve")) /\ Truthy(Get(gi, "isDNSFound"))
  THEN [kind |-> "result", value |-> emptyWhoisData]
  ELSE IF Truthy(Get(options, "minTrustFlow")) /\ Nullish(Get(gi, "majestic"))
  THEN [kind |-> "throw", value |-> Undefined]
  ELSE IF Truthy(Get(options, "minTrustFlow"))
          /\ Lt(Get(options, "minTrustFlow"), Get(Get(gi, "majestic"), "TrustFlow"))
  THEN [kind |-> "result", value |-> emptyWhoisData]
  ELSE IF Truthy(Get(options, "whois"))
          /\ Truthy(Get(Get(options, "whois"), "user"))
          /\ Truthy(Get(Get(options, "whois"), "password"))
  THEN [kind |-> "request", value |-> Undefined]
  ELSE [kind |-> "result", value |-> emptyWhoisData]

\* lines 189-213 and 286-288: what getWhoisData does before it returns
getWhoisData(gi) ==
  IF Truthy(Get(options, "noCheckIfDNSResolve")) /\ Truthy(Get(gi, "isDNSFound"))
  THEN [kind |-> "result", value |-> emptyWhoisData]
  ELSE IF Truthy(Get(options, "minTrustFlow")) /\ Nullish(Get(gi, "majestic"))
  THEN [kind |-> "throw", value |-> Undefined]
  ELSE IF Truthy(Get(options, "minTrustFlow"))
          /\ Lt(Get(Get(gi, "majestic"), "TrustFlow"), Get(options, "minTrustFlow"))
  THEN [kind |-> "result", value |-> emptyWhoisData]
  ELSE IF Truthy(Get(options, "whois"))
          /\ Truthy(Get(Get(options, "whois"), "user"))
          /\ Truthy(Get(Get(options, "whois"), "password"))
  THEN [kind |-> "request", value |-> Undefined]
  ELSE [kind |-> "result", value |-> emptyWhoisData]

\* getSemrushData without the test of noCheckIfDNSResolve
getSemrushData_NoSkip(gi) ==
  IF Truthy(Get(options, "semrushKey"))
  THEN IF Truthy(Get(options, "minTrustFlow")) /\ Nullish(Get(gi, "majestic"))
       THEN [kind |-> "throw", value |-> Undefined]
       ELSE IF Truthy(Get(options, "minTrustFlow"))
               /\ Lt(Get(Get(gi, "majestic"), "TrustFlow"), Get(options, "minTrustFlow"))
       THEN [kind |-> "result", value |-> emptySemrush]
       ELSE [kind |-> "request", value |-> Undefined]
  ELSE [kind |-> "result", value |-> emptySemrush]

\* lines 334-357 and 374-376: what getSemrushData does before it returns
getSemrushData(gi) ==
  IF Truthy(Get(options, "semrushKey"))
  THEN IF Truthy(Get(options, "noCheckIfDNSResolve")) /\ Truthy(Get(gi, "isDNSFound"))
       THEN [kind |-> "result", value |-> emptySemrush]
       ELSE IF Truthy(Get(options, "minTrustFlow")) /\ Nullish(Get(gi, "majestic"))
       THEN [kind |-> "throw", value |-> Undefined]
       ELSE IF Truthy(Get(options, "minTrustFlow"))
               /\ Lt(Get(Get(gi, "majestic"), "TrustFlow"), Get(options, "minTrustFlow"))
       THEN [kind |-> "result", value |-> emptySemrush]
       ELSE [kind |-> "request", value |-> Undefined]
  ELSE [kind |-> "result", value |-> emptySemrush]

\* lines 135-141: async.parallel starts the four tasks in order; the two
\* index counts are always pending when it returns.  A task that raises
\* (line 197 or 354, majestic undefined) does so inside async.parallel, after
\* the waterfall has handed generalInfo over: the process ends in the
\* parallel group with no call of the group issued
getOtherMetrics(gi) ==
  LET w == getWhoisData(gi)
      s == getSemrushData(gi)
      started == (IF w.kind = "request" THEN {"whois"} ELSE {})
                   \cup (IF s.kind = "request" THEN {"semrush"} ELSE {})
                   \cup {"serp.primary", "serp.google"}
  IN IF w.kind = "throw" \/ s.kind = "throw"
     THEN /\ pc' = "FetchingParallelGroup"
          /\ generalInfo' = gi
          /\ crashed' = TRUE
          /\ inflight' = {}
          /\ UNCHANGED <<cancelled, probed, options, results, completed, issued,
                         firstError, cbCount, cbError, cbData>>
     ELSE /\ pc' = "FetchingParallelGroup"
          /\ generalInfo' = gi
          /\ inflight' = started
          /\ issued' = Issue(started)
          /\ results' = [k \in Slots |-> IF k = 0 THEN w.value
                                         ELSE IF k = 1 THEN s.value ELSE Undefined]
          /\ completed' = (IF w.kind = "result" THEN {0} ELSE {})
                            \cup (IF s.kind = "result" THEN {1} ELSE {})
          /\ UNCHANGED <<cancelled, probed, options, crashed, firstError, cbCount, cbError, cbData>>

\* lines 292-308 and 328-331
getMajesticData(gi) ==
  IF Truthy(Get(options, "majecticKey"))
  THEN IF Truthy(Get(options, "noCheckIfDNSResolve")) /\ Truthy(Get(gi, "isDNSFound"))
       THEN getOtherMetrics(Put(gi, "majestic",
              Obj([TrustFlow |-> Num(0), ResultCode |-> Str("N0-CHECK-DNS-RESOLVED")])))
       ELSE /\ pc' = "FetchingAuthority"
            /\ generalInfo' = gi
            /\ inflight' = {"majestic"}
            /\ issued' = Issue({"majestic"})
            /\ UNCHANGED <<cancelled, probed, options, crashed, results, completed, firstError,
                           cbCount, cbError, cbData>>
  ELSE getOtherMetrics(Put(gi, "majestic",
         Obj([TrustFlow |-> Num(0), ResultCode |-> Str("NO-MAJESTIC-KEY")])))

\* getPing starting the authority request without waiting for the probe
getPing_NoWait(dnsInfo) ==
  IF ~Truthy(Get(dnsInfo, "isDNSFound"))
  THEN getMajesticData(Put(dnsInfo, "isAlive", Bool(FALSE)))
  ELSE /\ pc' = "FetchingAuthority"
       /\ generalInfo' = dnsInfo
       /\ inflight' = {"ping", "majestic"}
       /\ issued' = Issue({"ping", "majestic"})
       /\ probed' = probed \cup {Get(dnsInfo, "ip")}
       /\ UNCHANGED <<cancelled, options, crashed, results, completed, firstError,
                      cbCount, cbError, cbData>>

\* getPing without the test of isDNSFound
getPing_ProbeAlways(dnsInfo) ==
  /\ pc' = "Probing"
  /\ generalInfo' = dnsInfo
  /\ inflight' = {"ping"}
  /\ issued' = Issue({"ping"})
  /\ probed' = probed \cup {Get(dnsInfo, "ip")}
  /\ UNCHANGED <<cancelled, options, crashed, results, completed, firstError,
                 cbCount, cbError, cbData>>

\* lines 121-133
getPing(dnsInfo) ==
  IF ~Truthy(Get(dnsInfo, "isDNSFound"))
  THEN getMajesticData(Put(dnsInfo, "isAlive", Bool(FALSE)))
  ELSE /\ pc' = "Probing"
       /\ generalInfo' = dnsInfo
       /\ inflight' = {"ping"}
       /\ issued' = Issue({"ping"})
       /\ probed' = probed \cup {Get(dnsInfo, "ip")}
       /\ UNCHANGED <<cancelled, options, crashed, results, completed, firstError,
                      cbCount, cbError, cbData>>

\* lines 103-104: lookup issues dns.lookup
lookup(withWWW) ==
  /\ inflight' = {IF withWWW THEN "dns.www" ELSE "dns"}
  /\ issued' = Issue({IF withWWW THEN "dns.www" ELSE "dns"})
  /\ UNCHANGED <<cancelled, probed, options, pc, crashed, generalInfo, results, completed,
                 firstError, cbCount, cbError, cbData>>

(***************************************************************************)
(* async.parallel: the callback handed to the task of a slot.  The final   *)
(* callback runs once: on the first error, or when the last slot is filled. *)
(***************************************************************************)
\* the final callback running as soon as three of the four slots are filled
TaskDone_EarlyFanIn(slot, error, value) ==
  /\ inflight' = inflight \ {SlotCall(slot)}
  /\ IF Truthy(error)
     THEN /\ firstError' = IF Truthy(firstError) THEN firstError ELSE error
          /\ IF pc = "FetchingParallelGroup"
             THEN endCallback(error, Undefined)
             ELSE UNCHANGED <<pc, cbCount, cbError, cbData>>
          /\ UNCHANGED <<cancelled, probed, options, crashed, generalInfo, results,
                         completed, issued>>
     ELSE LET res == [results EXCEPT ![slot] = value]
              done == completed \cup {slot}
          IN /\ results' = res
             /\ completed' = done
             /\ IF Cardinality(done) >= 3 /\ pc = "FetchingParallelGroup"
                THEN /\ generalInfo' = merge(generalInfo, res)
                     /\ endCallback(Null, merge(generalInfo, res))
                ELSE UNCHANGED <<pc, generalInfo, cbCount, cbError, cbData>>
             /\ UNCHANGED <<cancelled, probed, options, crashed, issued, firstError>>

TaskDone(slot, error, value) ==
  /\ inflight' = inflight \ {SlotCall(slot)}
  /\ IF Truthy(error)
     THEN /\ firstError' = IF Truthy(firstError) THEN firstError ELSE error
          /\ IF pc = "FetchingParallelGroup"
             THEN endCallback(error, Undefined)
             ELSE UNCHANGED <<pc, cbCount, cbError, cbData>>
          /\ UNCHANGED <<cancelled, probed, options, crashed, generalInfo, results, completed, issued>>
     ELSE LET res == [results EXCEPT ![slot] = value]
              done == completed \cup {slot}
          IN /\ results' = res
             /\ completed' = done
             /\ IF done = Slots /\ pc = "FetchingParallelGroup"
                THEN /\ generalInfo' = merge(generalInfo, res)
                     /\ endCallback(Null, merge(generalInfo, res))
                ELSE UNCHANGED <<pc, generalInfo, cbCount, cbError, cbData>>
             /\ UNCHANGED <<cancelled, probed, options, crashed, issued, firstError>>

(***************************************************************************)
(* The actions: one per callback of an external collaborator.               *)
(***************************************************************************)
\* the resolver giving up after the bare lookup, without the www retry
LookupCallback_NoRetry(withWWW, error, address) ==
  /\ ~crashed
  /\ pc = "Resolving"
  /\ (IF withWWW THEN "dns.www" ELSE "dns") \in inflight
  /\ LET data == IF error
                 THEN Obj([domain |-> Get(options, "domain"),
                           withWWW |-> Bool(withWWW),
                           isDNSFound |-> Bool(FALSE)])
                 ELSE Obj([domain |-> Get(options, "domain"),
                           withWWW |-> Bool(withWWW),
                           isDNSFound |-> Bool(TRUE),
                           ip |-> Str(address)])
     IN getPing(data)
  /\ failed' = IF error
               THEN failed \cup {IF withWWW THEN "dns.www" ELSE "dns"}
               ELSE failed

\* lines 104-117, then getIp's waterfall (lines 89-96) and what follows it
LookupCallback(withWWW, error, address) ==
  /\ ~crashed
  /\ pc = "Resolving"
  /\ (IF withWWW THEN "dns.www" ELSE "dns") \in inflight
  /\ LET data == IF error
                 THEN Obj([domain |-> Get(options, "domain"),
                           withWWW |-> Bool(withWWW),
                           isDNSFound |-> Bool(FALSE)])
                 ELSE Obj([domain |-> Get(options, "domain"),
                           withWWW |-> Bool(withWWW),
                           isDNSFound |-> Bool(TRUE),
                           ip |-> Str(address)])
     IN IF ~withWWW /\ ~Truthy(Get(data, "isDNSFound"))
        THEN lookup(TRUE)
        ELSE getPing(data)
  /\ failed' = IF error
               THEN failed \cup {IF withWWW THEN "dns.www" ELSE "dns"}
               ELSE failed

\* lines 128-131
ProbeCallback(isAlive) ==
  /\ ~crashed
  /\ pc = "Probing"
  /\ "ping" \in inflight
  /\ getMajesticData(Put(generalInfo, "isAlive", Bool(isAlive)))
  /\ failed' = IF isAlive THEN failed ELSE failed \cup {"ping"}

\* the majestic callback degrading a failure to a sentinel and going on, as
\* the whois callback does
MajesticCallback_Degrade(resp) ==
  /\ ~crashed
  /\ pc = "FetchingAuthority"
  /\ "majestic" \in inflight
  /\ IF resp.error \/ resp.statusCode # 200
     THEN getOtherMetrics(Put(generalInfo, "majestic",
            Obj([TrustFlow |-> Num(0), ResultCode |-> Str("NO-MAJESTIC-KEY")])))
     ELSE IF resp.body = Malformed
     THEN Throw
     ELSE LET Data == resp.body.v
          IN getOtherMetrics(Put(generalInfo, "majestic",
                                 IF Len(Data) > 0 THEN Data[1] ELSE Undefined))
  /\ failed' = IF resp.error \/ resp.statusCode # 200
               THEN failed \cup {"majestic"}
               ELSE failed

\* lines 310-326
MajesticCallback(resp) ==
  /\ ~crashed
  /\ pc = "FetchingAuthority"
  /\ "majestic" \in inflight
  /\ IF resp.error \/ resp.statusCode # 200
     THEN LET error == IF resp.error THEN Err("majestic request")
                       ELSE Err("Impossible to get the Majestic data, check your credential")
          IN /\ endCallback(error, Undefined)
             /\ firstError' = error
             /\ inflight' = {}
             /\ UNCHANGED <<cancelled, probed, options, crashed, generalInfo, results, completed, issued>>
     ELSE IF resp.body = Malformed
     THEN Throw
     ELSE LET Data == resp.body.v
          IN getOtherMetrics(Put(generalInfo, "majestic",
                                 IF Len(Data) > 0 THEN Data[1] ELSE Undefined))
  /\ failed' = IF resp.error \/ resp.statusCode # 200
               THEN failed \cup {"majestic"}
               ELSE failed

\* the whois callback passing a transport error on, as the others do
WhoisCallback_FatalError(resp) ==
  /\ ~crashed
  /\ "whois" \in inflight
  /\ IF resp.error
     THEN TaskDone(0, Err("whoisxmlapi request"), Undefined)
     ELSE IF resp.statusCode = 200
     THEN IF resp.body = Malformed
          THEN Throw
          ELSE TaskDone(0, Null, normalizeWhois(resp.body.v))
     ELSE TaskDone(0, Null, emptyWhoisData)
  /\ failed' = IF resp.error \/ resp.statusCode # 200
               THEN failed \cup {"whois"}
               ELSE failed

\* lines 215-284
WhoisCallback(resp) ==
  /\ ~crashed
  /\ "whois" \in inflight
  /\ IF resp.error
     THEN TaskDone(0, Null, emptyWhoisData)
     ELSE IF resp.statusCode = 200
     THEN IF resp.body = Malformed
          THEN Throw
          ELSE TaskDone(0, Null, normalizeWhois(resp.body.v))
     ELSE TaskDone(0, Null, emptyWhoisData)
  /\ failed' = IF resp.error \/ resp.statusCode # 200
               THEN failed \cup {"whois"}
               ELSE failed

\* the semrush callback degrading a status other than 200 to the empty
\* record, as the whois callback does
SemrushCallback_DegradeHttp(resp) ==
  /\ ~crashed
  /\ "semrush" \in inflight
  /\ IF resp.error
     THEN TaskDone(1, Err("semrush request"), Undefined)
     ELSE IF resp.statusCode = 200
     THEN TaskDone(1, Null, convertSemrush(resp.body))
     ELSE TaskDone(1, Null, emptySemrush)
  /\ failed' = IF resp.error \/ resp.statusCode # 200
               THEN failed \cup {"semrush"}
               ELSE failed

\* lines 358-372
SemrushCallback(resp) ==
  /\ ~crashed
  /\ "semrush" \in inflight
  /\ IF resp.error
     THEN TaskDone(1, Err("semrush request"), Undefined)
     ELSE IF resp.statusCode = 200
     THEN TaskDone(1, Null, convertSemrush(resp.body))
     ELSE TaskDone(1, Err("Impossible to get the semrush data, check your credential"),
                   Undefined)
  /\ failed' = IF resp.error \/ resp.statusCode # 200
               THEN failed \cup {"semrush"}
               ELSE failed

\* lines 379-392: serp.search calls the task callback itself
SerpCallback(fromPrimaryIndex, error, count) ==
  /\ ~crashed
  /\ (IF fromPrimaryIndex THEN "serp.primary" ELSE "serp.google") \in inflight
  /\ LET slot == IF fromPrimaryIndex THEN 2 ELSE 3
     IN IF error
        THEN TaskDone(slot, Err(IF fromPrimaryIndex THEN "serp primary" ELSE "serp google"),
                      Undefined)
        ELSE TaskDone(slot, Null, Num(count))
  /\ failed' = IF error
               THEN failed \cup {IF fromPrimaryIndex THEN "serp.primary" ELSE "serp.google"}
               ELSE failed

(***************************************************************************)
(* The specification.  Init is the state in which module.exports returns:   *)
(* the first dns.lookup is issued and nothing has been answered.            *)
(***************************************************************************)
Init ==
  /\ options \in Options
  /\ pc = "Resolving"
  /\ crashed = FALSE
  /\ generalInfo = Obj(<<>>)
  /\ inflight = {"dns"}
  /\ results = [k \in Slots |-> Undefined]
  /\ completed = {}
  /\ issued = [c \in Calls |-> IF c = "dns" THEN 1 ELSE 0]
  /\ probed = {}
  /\ failed = {}
  /\ cancelled = FALSE
  /\ firstError = Null
  /\ cbCount = 0
  /\ cbError = Undefined
  /\ cbData = Undefined

Next ==
  \/ \E withWWW \in BOOLEAN, address \in Addresses :
       LookupCallback(withWWW, FALSE, address)
  \/ \E withWWW \in BOOLEAN : LookupCallback(withWWW, TRUE, "")
  \/ \E isAlive \in BOOLEAN : ProbeCallback(isAlive)
  \/ \E resp \in MajesticResponses : MajesticCallback(resp)
  \/ \E resp \in WhoisResponses : WhoisCallback(resp)
  \/ \E resp \in SemrushResponses : SemrushCallback(resp)
  \/ \E fromPrimaryIndex \in BOOLEAN, count \in Counts :
       SerpCallback(fromPrimaryIndex, FALSE, count)
  \/ \E fromPrimaryIndex \in BOOLEAN : SerpCallback(fromPrimaryIndex, TRUE, 0)

Spec == Init /\ [][Next]_vars

\* The caller triggers its deadline / cancellation signal while calls are in
\* flight.  module.exports takes (options, endCallback) and nothing else, and
\* no function of src/index.js reads a signal: the step changes nothing in
\* the check.
Cancel ==
  /\ ~crashed
  /\ ~cancelled
  /\ inflight # {}
  /\ cbCount = 0
  /\ cancelled' = TRUE
  /\ UNCHANGED <<options, pc, crashed, generalInfo, inflight, results, completed,
                 issued, probed, failed, firstError, cbCount, cbError, cbData>>

CancelNext == Next \/ Cancel

\* one check whose caller may cancel it
CancelSpec == Init /\ [][CancelNext]_vars

(***************************************************************************)
(* One check with every credential configured, in which every call that is *)
(* issued is eventually answered: weak fairness on the callback of each     *)
(* external call.  The answers are a sample of those of Next: failures,     *)
(* well-formed bodies and bodies that JSON.parse rejects.                   *)
(***************************************************************************)
LiveOptions ==
  { Obj([domain |-> Str("example.com"), majecticKey |-> Str("MK"),
         whois |-> Obj([user |-> Str("u"), password |-> Str("p")]),
         semrushKey |-> Str("SK"), noCheckIfDNSResolve |-> Undefined,
         minTrustFlow |-> tf]) : tf \in {Undefined, Num(1)} }

LiveInit == Init /\ options \in LiveOptions

LiveLookup(withWWW) ==
  \/ LookupCallback(withWWW, FALSE, "192.0.2.1")
  \/ LookupCallback(withWWW, TRUE, "")

LiveProbe == \E isAlive \in BOOLEAN : ProbeCallback(isAlive)

LiveMajestic ==
  \E resp \in {TransportError(Malformed), Http(200, Malformed), Http(200, Json(<<>>)),
               Http(200, Json(<<MajesticItem(1)>>))} : MajesticCallback(resp)

LiveWhois ==
  \E resp \in {TransportError(Malformed), Http(200, Malformed),
               Http(200, Json(Obj(<<>>)))} : WhoisCallback(resp)

LiveSemrush ==
  \E resp \in {Http(403, <<<<"">>>>), Http(200, <<<<"">>>>)} : SemrushCallback(resp)

LiveSerp(fromPrimaryIndex) ==
  \/ SerpCallback(fromPrimaryIndex, FALSE, 1)
  \/ SerpCallback(fromPrimaryIndex, TRUE, 0)

LiveNext ==
  \/ LiveLookup(FALSE)
  \/ LiveLookup(TRUE)
  \/ LiveProbe
  \/ LiveMajestic
  \/ LiveWhois
  \/ LiveSemrush
  \/ LiveSerp(TRUE)
  \/ LiveSerp(FALSE)

LiveSpec ==
  /\ LiveInit
  /\ [][LiveNext]_vars
  /\ WF_vars(LiveLookup(FALSE))
  /\ WF_vars(LiveLookup(TRUE))
  /\ WF_vars(LiveProbe)
  /\ WF_vars(LiveMajestic)
  /\ WF_vars(LiveWhois)
  /\ WF_vars(LiveSemrush)
  /\ WF_vars(LiveSerp(TRUE))
  /\ WF_vars(LiveSerp(FALSE))

TypeOK ==
  /\ pc \in {"Resolving", "Probing", "FetchingAuthority", "FetchingParallelGroup",
             "Done", "Failed"}
  /\ inflight \subseteq Calls
  /\ completed \subseteq Slots
  /\ cbCount \in 0..2

(***************************************************************************)
(* Vocabulary of the properties.                                            *)
(***************************************************************************)
Opt(name) == Get(options, name)

\* the resolver has finished and found an address (bare or www)
Resolved == pc # "Resolving" /\ Truthy(Get(generalInfo, "isDNSFound"))

\* both lookups were answered with an error
BothLookupsFailed == {"dns", "dns.www"} \subseteq failed

FatalCalls == {"majestic", "semrush", "serp.primary", "serp.google"}

\* async.parallel has been entered
GroupStarted ==
  \/ pc \in {"FetchingParallelGroup", "Done"}
  \/ pc = "Failed" /\ "majestic" \notin failed

\* a composite result has been reported to the caller
Reported == cbCount > 0 /\ Truthy(cbData)

WhoisCredentialsConfigured ==
  /\ Truthy(Opt("whois"))
  /\ Truthy(Get(Opt("whois"), "user"))
  /\ Truthy(Get(Opt("whois"), "password"))

\* the authority record carries a score below the configured threshold
BelowThreshold ==
  /\ Truthy(Get(generalInfo, "majestic"))
  /\ Opt("minTrustFlow").t = "number"
  /\ Lt(Get(Get(generalInfo, "majestic"), "TrustFlow"), Opt("minTrustFlow"))

SkippedAuthority == Obj([TrustFlow |-> Num(0), ResultCode |-> Str("NO-CHECK-DNS-RESOLVED")])

(***************************************************************************)
(* C1: for every outcome of the provider answers the caller's callback is  *)
(* invoked exactly once, with an error or with a result and never both:     *)
(* never twice, and once no external call is pending any more it has been   *)
(* invoked.                                                                 *)
(***************************************************************************)
C1_CallbackExactlyOnce ==
  /\ cbCount <= 1
  /\ cbCount = 1 => (Truthy(cbError) # Truthy(cbData))
  /\ inflight = {} => cbCount = 1

(***************************************************************************)
(* C2: with noCheckIfDNSResolve set and a domain that resolves, no whois   *)
(* and no semrush request is issued, whatever the credentials, and the      *)
(* reported whois and semrush records are emptyWhoisData and emptySemrush.  *)
(***************************************************************************)
C2_SkipWhenResolved ==
  (Truthy(Opt("noCheckIfDNSResolve")) /\ Resolved) =>
     /\ issued["whois"] = 0
     /\ issued["semrush"] = 0
     /\ Reported => /\ Get(cbData, "whois") = emptyWhoisData
                    /\ Get(cbData, "semrush") = emptySemrush

C2_Witness ==
  /\ Truthy(Opt("noCheckIfDNSResolve")) /\ Resolved
  /\ WhoisCredentialsConfigured /\ Truthy(Opt("semrushKey"))
  /\ Reported
  /\ Get(cbData, "whois") = emptyWhoisData

(***************************************************************************)
(* C3: with noCheckIfDNSResolve set and a domain that resolves, with or    *)
(* without a majestic key, no majestic request is issued and the authority  *)
(* record is {TrustFlow: 0, ResultCode: "NO-CHECK-DNS-RESOLVED"}.           *)
(***************************************************************************)
C3_AuthoritySkippedSentinel ==
  (Truthy(Opt("noCheckIfDNSResolve")) /\ Resolved
     /\ pc \notin {"Resolving", "Probing"}) =>
     /\ issued["majestic"] = 0
     /\ Get(generalInfo, "majestic") = SkippedAuthority

(***************************************************************************)
(* C4: with minTrustFlow = T and an authority score below T (from the      *)
(* provider or from a sentinel with TrustFlow 0), no whois and no semrush   *)
(* request is issued, whatever the credentials, and the whois and semrush   *)
(* records are emptyWhoisData and emptySemrush.                             *)
(***************************************************************************)
C4_SkipBelowThreshold ==
  (GroupStarted /\ BelowThreshold) =>
     /\ issued["whois"] = 0
     /\ issued["semrush"] = 0
     /\ results[0] = emptyWhoisData
     /\ results[1] = emptySemrush
     /\ Reported => /\ Get(cbData, "whois") = emptyWhoisData
                    /\ Get(cbData, "semrush") = emptySemrush

C4_Witness ==
  /\ BelowThreshold
  /\ Get(Get(generalInfo, "majestic"), "ResultCode") = Str("OK")
  /\ issued["majestic"] = 1
  /\ WhoisCredentialsConfigured /\ Truthy(Opt("semrushKey"))
  /\ Reported
  /\ Get(cbData, "semrush") = emptySemrush

(***************************************************************************)
(* C5: in every reported result isAvailable is a boolean: false when the   *)
(* domain resolved; when it did not, true if the whois status is           *)
(* "AVAILABLE" and false for any other status or without a status.          *)
(***************************************************************************)
C5_IsAvailableTable ==
  Reported =>
    LET status == Get(Get(cbData, "whois"), "status")
        resolved == Truthy(Get(cbData, "isDNSFound"))
    IN /\ Get(cbData, "isAvailable").t = "boolean"
       /\ Get(cbData, "isAvailable").v = (~resolved /\ status = Str("AVAILABLE"))

C5_Witness ==
  /\ Reported
  /\ ~Truthy(Get(cbData, "isDNSFound"))
  /\ Get(Get(cbData, "whois"), "status") = Str("AVAILABLE")
  /\ Get(cbData, "isAvailable") = Bool(TRUE)

(***************************************************************************)
(* C6: for every pair of counts the two index calls return, 0 included,    *)
(* the reported result has                                                  *)
(* secondaryIndex = googleIndex - primaryIndex, a number.                   *)
(***************************************************************************)
C6_SecondaryIndexIsDifference ==
  Reported =>
    Get(cbData, "secondaryIndex") = Num(results[3].v - results[2].v)

(***************************************************************************)
(* C7: in every result reported without error the fields majestic, whois,  *)
(* semrush, isAvailable, primaryIndex, googleIndex, secondaryIndex and tld  *)
(* are all defined.                                                         *)
(***************************************************************************)
C7_AllFieldsDefined ==
  Reported =>
    \A f \in {"majestic", "whois", "semrush", "isAvailable", "primaryIndex",
              "googleIndex", "secondaryIndex", "tld"} :
       Defined(Get(cbData, f))

(***************************************************************************)
(* C8: when the bare and the www lookup both fail, isDNSFound and isAlive  *)
(* are false and no later stage is suppressed by it: the majestic request   *)
(* is issued whenever a key is configured, and once the parallel group is   *)
(* entered the whois and semrush requests are issued whenever their         *)
(* credential is configured and the score is not below the threshold, and   *)
(* both index calls are issued; noCheckIfDNSResolve changes nothing.        *)
(***************************************************************************)
C8_UnresolvedRunsEveryStage ==
  BothLookupsFailed =>
    /\ Get(generalInfo, "isDNSFound") = Bool(FALSE)
    /\ Get(generalInfo, "isAlive") = Bool(FALSE)
    /\ issued["ping"] = 0
    /\ issued["majestic"] = IF Truthy(Opt("majecticKey")) THEN 1 ELSE 0
    /\ GroupStarted =>
         /\ issued["whois"] =
              IF WhoisCredentialsConfigured /\ ~BelowThreshold THEN 1 ELSE 0
         /\ issued["semrush"] =
              IF Truthy(Opt("semrushKey")) /\ ~BelowThreshold THEN 1 ELSE 0
         /\ issued["serp.primary"] = 1
         /\ issued["serp.google"] = 1

(***************************************************************************)
(* C9: as soon as the majestic request, the semrush request or one of the  *)
(* index calls has failed, the check is Failed: the callback has been       *)
(* invoked once, with the error of the first such failure and without any   *)
(* result.                                                                  *)
(***************************************************************************)
C9_FatalFailureReported ==
  (failed \cap FatalCalls # {}) =>
    /\ pc = "Failed"
    /\ cbCount = 1
    /\ Truthy(firstError)
    /\ cbError = firstError
    /\ cbData = Undefined

C9_Witness ==
  /\ {"semrush", "serp.primary", "serp.google"} \subseteq failed
  /\ 0 \in completed
  /\ cbCount = 1
  /\ cbError = Err("serp google")

(***************************************************************************)
(* C10: a failure of a lookup, of the probe or of the whois request        *)
(* (transport error or status other than 200) never makes the check report  *)
(* an error: the reported error is one of majestic, semrush or serp, and    *)
(* when semrush and both index calls succeeded or were skipped the caller   *)
(* has a result with isDNSFound false, isAlive false and emptyWhoisData in  *)
(* place of the failed stage.                                               *)
(***************************************************************************)
C10_DegradedNeverFatal ==
  /\ Truthy(cbError) => failed \cap FatalCalls # {}
  /\ failed \cap FatalCalls = {} => pc # "Failed"
  /\ (completed = Slots /\ failed \cap FatalCalls = {}) =>
       /\ pc = "Done" /\ cbCount = 1 /\ cbError = Null /\ Reported
       /\ BothLookupsFailed => /\ Get(cbData, "isDNSFound") = Bool(FALSE)
                               /\ Get(cbData, "isAlive") = Bool(FALSE)
       /\ "ping" \in failed => Get(cbData, "isAlive") = Bool(FALSE)
       /\ "whois" \in failed => Get(cbData, "whois") = emptyWhoisData

C10_Witness ==
  /\ "dns" \in failed /\ "ping" \in failed /\ "whois" \in failed
  /\ issued["majestic"] = 1 /\ issued["semrush"] = 1
  /\ Reported
  /\ Get(cbData, "whois") = emptyWhoisData
  /\ Get(cbData, "isAlive") = Bool(FALSE)

(***************************************************************************)
(* C11: without any credential and with both lookups failed, the reported  *)
(* result has isDNSFound false, isAlive false, the authority record        *)
(* {TrustFlow: 0, ResultCode: "NO-KEY"}, a whois record whose fields all    *)
(* equal "no-data", the all-default semrush record and isAvailable false;   *)
(* no majestic, whois or semrush request is issued.                         *)
(***************************************************************************)
NoCredentials ==
  /\ ~Truthy(Opt("majecticKey"))
  /\ Opt("whois") = Undefined
  /\ ~Truthy(Opt("semrushKey"))

NoRequestIssued ==
  issued["majestic"] = 0 /\ issued["whois"] = 0 /\ issued["semrush"] = 0

DerivedFields ==
  {"isValidDomain", "missingData", "status", "isPendingDelete",
   "isRedemptionPeriod", "createdDate", "expiresDate", "expiredWaitingTime",
   "estimatedDomainAge"}

C12_NineDerivedFields ==
  0 \in completed => \A f \in DerivedFields : Defined(Get(results[0], f))

(***************************************************************************)
(* C13: convertSemrush is total: a 200 answer whose body has fewer than 2  *)
(* lines fills the semrush slot with exactly emptySemrush, without error    *)
(* and without exception.                                                   *)
(***************************************************************************)
C13_ShortBodyGivesDefault ==
  [][\A resp \in SemrushResponses :
       (SemrushCallback(resp) /\ ~resp.error /\ resp.statusCode = 200
          /\ Len(resp.body) < 2)
       => /\ results'[1] = emptySemrush
          /\ 1 \in completed'
          /\ ~crashed'
          /\ failed' = failed]_vars

\* the semrush request was answered with 200 and the slot holds the default
C13_Witness ==
  /\ issued["semrush"] = 1
  /\ 1 \in completed
  /\ results[1] = emptySemrush

(***************************************************************************)
(* C14: when the caller triggers its cancellation signal while provider    *)
(* calls are in flight, the caller receives exactly one cancellation error *)
(* and no composite result, partial or complete.                            *)
(***************************************************************************)
C14_CancelledReportsCancellation ==
  (cancelled /\ cbCount > 0) =>
    /\ cbCount = 1
    /\ cbError = Err("cancelled")
    /\ cbData = Undefined

(***************************************************************************)
(* C15: a composite result is reported only when all four slots of the     *)
(* parallel group are filled and nothing is pending; until then the data    *)
(* object carries none of the merged fields, and the reported object is the *)
(* merge of the four slots.                                                 *)
(***************************************************************************)
MergedFields ==
  {"whois", "semrush", "isAvailable", "primaryIndex", "googleIndex",
   "secondaryIndex", "tld"}

C15_MergeAfterFanIn ==
  /\ Reported =>
       /\ pc = "Done" /\ cbCount = 1
       /\ completed = Slots
       /\ inflight = {}
       /\ cbData = generalInfo
       /\ Get(cbData, "whois") = results[0]
       /\ Get(cbData, "semrush") = results[1]
       /\ Truthy(results[2]) => Get(cbData, "primaryIndex") = results[2]
       /\ Truthy(results[3]) => Get(cbData, "googleIndex") = results[3]
       /\ Defined(Get(cbData, "isAvailable"))
       /\ Defined(Get(cbData, "tld"))
  /\ ~Reported => \A f \in MergedFields : ~Defined(Get(generalInfo, f))

C15_Witness ==
  /\ Reported
  /\ issued["whois"] = 1 /\ issued["semrush"] = 1
  /\ Get(Get(cbData, "whois"), "status") = Str("REGISTERED")
  /\ Get(Get(cbData, "semrush"), "rank") = Str("7")
  /\ Get(cbData, "primaryIndex") = Num(1)
  /\ Get(cbData, "googleIndex") = Num(2)

(***************************************************************************)
(* C16: the stages start in order: the www lookup after the bare one is    *)
(* answered, the probe after resolution, the majestic request after the     *)
(* probe stage, and the whois, semrush and index calls after the authority  *)
(* stage has completed without failure.                                     *)
(***************************************************************************)
ParallelCalls == {"whois", "semrush", "serp.primary", "serp.google"}

C16_StagesInOrder ==
  /\ issued["dns.www"] > 0 => "dns" \notin inflight
  /\ issued["ping"] > 0 =>
       /\ inflight \cap {"dns", "dns.www"} = {}
       /\ pc # "Resolving"
  /\ issued["majestic"] > 0 =>
       /\ inflight \cap {"dns", "dns.www", "ping"} = {}
       /\ pc \notin {"Resolving", "Probing"}
       /\ Defined(Get(generalInfo, "isAlive"))
  /\ \A c \in ParallelCalls :
       issued[c] > 0 =>
         /\ inflight \cap {"dns", "dns.www", "ping", "majestic"} = {}
         /\ pc \in {"FetchingParallelGroup", "Done", "Failed"}
         /\ "majestic" \notin failed
         /\ Defined(Get(generalInfo, "isAlive"))

C16_Witness ==
  /\ issued["dns.www"] = 1 /\ issued["ping"] = 1 /\ issued["majestic"] = 1
  /\ \A c \in ParallelCalls : issued[c] = 1
  /\ inflight = ParallelCalls

(***************************************************************************)
(* C17: the www lookup is issued if and only if the bare lookup failed;    *)
(* isDNSFound is false if and only if both lookups failed; withWWW is true  *)
(* exactly when the second lookup was made; ip is set exactly when          *)
(* isDNSFound is true, to the address of the lookup that succeeded.         *)
(***************************************************************************)
C17_ResolverState ==
  /\ issued["dns"] = 1
  /\ issued["dns.www"] = IF "dns" \in failed THEN 1 ELSE 0
  /\ pc # "Resolving" =>
       /\ Get(generalInfo, "isDNSFound").t = "boolean"
       /\ (Get(generalInfo, "isDNSFound") = Bool(FALSE)) <=> BothLookupsFailed
       /\ Get(generalInfo, "withWWW") = Bool(issued["dns.www"] = 1)
       /\ Defined(Get(generalInfo, "ip")) <=> Truthy(Get(generalInfo, "isDNSFound"))

C17_ResolverStep ==
  \A withWWW \in BOOLEAN, address \in Addresses :
    LookupCallback(withWWW, FALSE, address) =>
      /\ Get(generalInfo', "isDNSFound") = Bool(TRUE)
      /\ Get(generalInfo', "ip") = Str(address)
      /\ Get(generalInfo', "withWWW") = Bool(withWWW)

C17_Resolver == [](C17_ResolverState) /\ [][C17_ResolverStep]_vars

C17_Witness ==
  /\ pc # "Resolving"
  /\ "dns" \in failed /\ "dns.www" \notin failed
  /\ Get(generalInfo, "ip") = Str("192.0.2.2")
  /\ Get(generalInfo, "withWWW") = Bool(TRUE)

(***************************************************************************)
(* C18: no probe is sent when the address did not resolve, and isAlive is  *)
(* then false; exactly one probe is sent, to the resolved ip, when it did;  *)
(* isAlive is the outcome of that probe.                                    *)
(***************************************************************************)
C18_ProbeOnlyWhenResolved ==
  /\ pc = "Resolving" => issued["ping"] = 0 /\ probed = {}
  /\ pc # "Resolving" =>
       IF Truthy(Get(generalInfo, "isDNSFound"))
       THEN issued["ping"] = 1 /\ probed = {Get(generalInfo, "ip")}
       ELSE issued["ping"] = 0 /\ probed = {}
  /\ pc \notin {"Resolving", "Probing"} =>
       Get(generalInfo, "isAlive") =
         Bool(Truthy(Get(generalInfo, "isDNSFound")) /\ "ping" \notin failed)
  /\ Reported => Get(cbData, "isAlive") = Get(generalInfo, "isAlive")

C18_Witness ==
  /\ Reported
  /\ issued["ping"] = 1
  /\ probed = {Str("192.0.2.2")}
  /\ Get(cbData, "isAlive") = Bool(TRUE)

(***************************************************************************)
(* C19: when the majestic request fails, the parallel group is never       *)
(* entered: no whois, semrush or index call is issued, nothing is pending,  *)
(* and the caller has received the error of the authority stage.            *)
(***************************************************************************)
C19_AuthorityFailureAborts ==
  "majestic" \in failed =>
    /\ pc = "Failed"
    /\ \A c \in ParallelCalls : issued[c] = 0
    /\ inflight = {}
    /\ completed = {}
    /\ cbCount = 1
    /\ cbError \in {Err("majestic request"),
                    Err("Impossible to get the Majestic data, check your credential")}
    /\ cbData = Undefined

C19_Witness ==
  /\ "majestic" \in failed
  /\ cbCount = 1
  /\ cbError = Err("Impossible to get the Majestic data, check your credential")
  /\ WhoisCredentialsConfigured /\ Truthy(Opt("semrushKey"))

(***************************************************************************)
(* C20: if every external call is eventually answered, with success or     *)
(* failure and with any body, the check eventually reaches Done or Failed   *)
(* and the caller's callback is invoked.                                    *)
(***************************************************************************)
C20_EventuallyReported == <>(pc \in {"Done", "Failed"} /\ cbCount = 1)

====
